---- MODULE Spec2Model ----
(***************************************************************************)
(* Locale resolution and locale-prefixed routing of the portfolio site.    *)
(*                                                                         *)
(* Strings of the program (locale codes, path names, cookie values) are    *)
(* sequences of one-character strings, so that prefix tests, slicing and   *)
(* case folding are computed as the code computes them.  A character that  *)
(* is not ASCII is written as its code point ("U+00E9").                   *)
(*                                                                         *)
(* The routing middleware is the one `createMiddleware(routing)` of        *)
(* next-intl builds for the routing configuration of lib/i18n/routing.ts   *)
(* (localePrefix "always", no domains, no pathnames, locale detection and  *)
(* locale cookie left at their defaults).  Query strings are not modelled. *)
(*                                                                         *)
(* Spec follows one request at a time through the proxy, the request       *)
(* configuration, generateMetadata and the layouts, and runs the helpers,  *)
(* the LocaleSwitcher, generateStaticParams and sitemap on their own.      *)
(* SpecStartup evaluates the configuration modules for any registry the    *)
(* source could spell out.  SpecConcurrent interleaves several requests.   *)
(***************************************************************************)
EXTENDS Integers, Sequences, FiniteSets, TLC

VARIABLES
    pc,        \* position of the request in flight
    request,   \* the inbound request: path, NEXT_LOCALE cookie, Accept-Language
    handled,   \* TRUE iff the proxy ran for the request (config.matcher matched)
    routed,    \* the response built by handleI18nRouting
    response,  \* the response the proxy returned (or the framework's, if skipped)
    hops,      \* redirects followed so far for this navigation
    reqConfig, \* the value returned by the getRequestConfig callback
    registry,  \* the loaded module lib/i18n/config.ts: locales, localesCodes, defaultLocale
    lookup,    \* the values the helpers of lib/i18n/utils.ts returned for one code
    metadata,  \* the Metadata object generateMetadata returned for the page
    page,      \* what the layouts rendered: <html> attributes and JSON-LD objects
    switcher,       \* what the LocaleSwitcher component rendered
    staticParams,   \* the value generateStaticParams returned
    sitemapRoutes,  \* the value sitemap() returned
    inflight        \* the requests processed concurrently, each with its own values

\* The variables outside the pipeline of the single request.
siteVars == <<switcher, staticParams, sitemapRoutes, inflight>>

vars == <<pc, request, handled, routed, response, hops, reqConfig, registry, lookup, metadata, page,
          switcher, staticParams, sitemapRoutes, inflight>>

(***************************************************************************)
(* Bounds of the model.                                                    *)
(***************************************************************************)
MaxSegs == 3
MaxHops == 2

\* Most records in a candidate registry of the startup specification.
MaxLocales == 3

\* Requests processed concurrently in the concurrent specification.
MaxRequests == 2

(***************************************************************************)
(* Strings.                                                                *)
(***************************************************************************)
\* The JavaScript value undefined (an absent string); no string equals it.
Undefined == <<"undefined">>

Slash == <<"/">>

UpperLetters ==
    <<"A","B","C","D","E","F","G","H","I","J","K","L","M",
      "N","O","P","Q","R","S","T","U","V","W","X","Y","Z">>

LowerLetters ==
    <<"a","b","c","d","e","f","g","h","i","j","k","l","m",
      "n","o","p","q","r","s","t","u","v","w","x","y","z">>

UpperSet == { UpperLetters[i] : i \in 1..Len(UpperLetters) }

LowerOf ==
    [c \in UpperSet |->
        LowerLetters[CHOOSE i \in 1..Len(UpperLetters) : UpperLetters[i] = c]]

LowerChar(c) == IF c \in UpperSet THEN LowerOf[c] ELSE c

\* String.prototype.toLowerCase
ToLowerCase(s) == [i \in 1..Len(s) |-> LowerChar(s[i])]

\* String.prototype.startsWith
StartsWith(s, p) == Len(s) >= Len(p) /\ SubSeq(s, 1, Len(p)) = p

\* String.prototype.endsWith
EndsWith(s, p) == Len(s) >= Len(p) /\ SubSeq(s, Len(s) - Len(p) + 1, Len(s)) = p

\* s.slice(n)
SliceFrom(s, n) == SubSeq(s, n + 1, Len(s))

HasChar(s, c) == \E i \in 1..Len(s) : s[i] = c

\* JavaScript truthiness of a string-or-undefined value
Truthy(s) == s # Undefined /\ s # <<>>

(***************************************************************************)
(* lib/i18n/config.ts: the locale registry.                                *)
(***************************************************************************)
\* A registry that lists the French record twice.
localesDuplicated ==
    << [code |-> <<"a","r">>, name |-> "Arabic",
        nativeName |-> <<"U+0627","U+0644","U+0639","U+0631","U+0628","U+064A","U+0629">>,
        direction |-> "rtl", flag |-> "DZ"],
       [code |-> <<"f","r">>, name |-> "French",
        nativeName |-> <<"F","r","a","n","U+00E7","a","i","s">>,
        direction |-> "ltr", flag |-> "FR"],
       [code |-> <<"f","r">>, name |-> "French",
        nativeName |-> <<"F","r","a","n","U+00E7","a","i","s">>,
        direction |-> "ltr", flag |-> "FR"],
       [code |-> <<"e","n">>, name |-> "English",
        nativeName |-> <<"E","n","g","l","i","s","h">>,
        direction |-> "ltr", flag |-> "GB"] >>

locales ==
    << [code |-> <<"a","r">>, name |-> "Arabic",
        nativeName |-> <<"U+0627","U+0644","U+0639","U+0631","U+0628","U+064A","U+0629">>,
        direction |-> "rtl", flag |-> "DZ"],
       [code |-> <<"f","r">>, name |-> "French",
        nativeName |-> <<"F","r","a","n","U+00E7","a","i","s">>,
        direction |-> "ltr", flag |-> "FR"],
       [code |-> <<"e","n">>, name |-> "English",
        nativeName |-> <<"E","n","g","l","i","s","h">>,
        direction |-> "ltr", flag |-> "GB"] >>

\* locales.map((l) => l.code)
localesCodes == [i \in 1..Len(locales) |-> locales[i].code]

\* A registry whose default is its first entry.
defaultLocaleArabic == <<"a","r">>

defaultLocale == <<"e","n">>

\* Array.prototype.includes over a sequence of strings (strict equality)
Includes(arr, v) == \E i \in 1..Len(arr) : arr[i] = v

(***************************************************************************)
(* lib/i18n/utils.ts: helpers over the registry.                           *)
(***************************************************************************)
\* The value `undefined` where a locale record is expected: each of its
\* members reads as undefined.
NoLocaleConfig ==
    [code |-> Undefined, name |-> "undefined", nativeName |-> Undefined,
     direction |-> "undefined", flag |-> "undefined"]

\* Array.prototype.find((l) => l.code === locale): the first record with the
\* code, undefined when there is none.
Find(arr, locale) ==
    LET hits == { i \in 1..Len(arr) : arr[i].code = locale }
    IN  IF hits = {} THEN NoLocaleConfig
        ELSE arr[CHOOSE i \in hits : \A j \in hits : i <= j]

\* obj.member: reading a member of undefined throws a TypeError.
MemberAccess(obj, member) ==
    [value |-> obj[member], threw |-> obj = NoLocaleConfig]

\* obj?.member: undefined when obj is undefined, never throws.
OptionalChain(obj, member) ==
    [value |-> obj[member], threw |-> FALSE]

\* export function getLocaleConfig(locale)
getLocaleConfig(locale) == Find(registry.locales, locale)

\* export function isValidLocale(locale)
isValidLocale(locale) == Includes(registry.localesCodes, locale)

\* A direction test that reads every code as left-to-right.
isRTLNever(locale) == FALSE

\* export function isRTL(locale)
isRTL(locale) ==
    LET localeConfig == Find(registry.locales, locale)
    IN  OptionalChain(localeConfig, "direction").value = "rtl"

\* export function getDirection(locale)
getDirection(locale) == IF isRTL(locale) THEN "rtl" ELSE "ltr"

\* export function getFontClassName(locale)
getFontClassName(locale) == IF isRTL(locale) THEN "font-arabic" ELSE "font-latin"

\* A display-name helper that returns the code for every input.
getLocaleDisplayNameCode(locale) == locale

\* export function getLocaleDisplayName(locale): config?.nativeName || locale
getLocaleDisplayName(locale) ==
    LET config == getLocaleConfig(locale)
        name   == OptionalChain(config, "nativeName").value
    IN  IF Truthy(name) THEN name ELSE locale

\* export function getOppositeDirection(locale)
getOppositeDirection(locale) ==
    LET direction == getDirection(locale)
    IN  IF direction = "rtl" THEN "ltr" ELSE "rtl"

\* TRUE iff one of the four helpers raises an exception for the code.
HelpersThrow(locale) ==
    \/ OptionalChain(Find(registry.locales, locale), "direction").threw
    \/ OptionalChain(getLocaleConfig(locale), "nativeName").threw

(***************************************************************************)
(* lib/i18n/routing.ts: defineRouting({...}).                              *)
(***************************************************************************)
\* A routing configuration that hides the prefix of the default locale.
routingAsNeeded ==
    [locales |-> localesCodes,
     defaultLocale |-> defaultLocale,
     localePrefix |-> "as-needed"]

routing ==
    [locales |-> localesCodes,
     defaultLocale |-> defaultLocale,
     localePrefix |-> "always"]

(***************************************************************************)
(* lib/i18n/request.ts: the getRequestConfig callback.                     *)
(***************************************************************************)
\* The translation files under lib/i18n/messages/ (ar.json, en.json, fr.json),
\* named by their base name.
messageBundles == { <<"a","r">>, <<"e","n">>, <<"f","r">> }

\* A resolver that returns any non-empty candidate as it is.
ResolveLocaleUnvalidated(requestedLocale) ==
    IF Truthy(requestedLocale) THEN requestedLocale ELSE routing.defaultLocale

\* A resolver that compares the candidate with the codes without regard to case.
ResolveLocaleIgnoreCase(requestedLocale) ==
    IF Truthy(requestedLocale) /\ Includes(routing.locales, ToLowerCase(requestedLocale))
    THEN requestedLocale
    ELSE routing.defaultLocale

\* requestedLocale && routing.locales.includes(requestedLocale)
\*   ? requestedLocale : routing.defaultLocale
ResolveLocale(requestedLocale) ==
    IF Truthy(requestedLocale) /\ Includes(routing.locales, requestedLocale)
    THEN requestedLocale
    ELSE routing.defaultLocale

\* A callback that imports the bundle named by the candidate itself.
GetRequestConfigCandidateBundle(requestLocale) ==
    LET locale == ResolveLocale(requestLocale)
    IN  [candidate |-> requestLocale,
         locale    |-> locale,
         messages  |-> requestLocale,
         threw     |-> requestLocale \notin messageBundles]

\* The callback's outcome for one awaited requestLocale: the config it returns,
\* the bundle `./messages/${locale}.json` it imports, and whether the dynamic
\* import rejected (no such file).
GetRequestConfig(requestLocale) ==
    LET locale == ResolveLocale(requestLocale)
    IN  [candidate |-> requestLocale,
         locale    |-> locale,
         messages  |-> locale,
         threw     |-> locale \notin messageBundles]

(***************************************************************************)
(* proxy.ts: config.matcher.  The pattern is a slash followed by one       *)
(* group: a negative lookahead over the alternatives api, _next, _vercel,  *)
(* images, icons and "anything, a dot, anything", then any characters.     *)
(* The framework anchors the pattern at both ends of the path name.        *)
(***************************************************************************)
\* The prefixes the comment above the matcher lists: api, _next, _vercel.
matcherExcludedPrefixesDocumented ==
    { <<"a","p","i">>,
      <<"_","n","e","x","t">>,
      <<"_","v","e","r","c","e","l">> }

\* The literal alternatives of the negative lookahead.
matcherExcludedPrefixes ==
    { <<"a","p","i">>,
      <<"_","n","e","x","t">>,
      <<"_","v","e","r","c","e","l">>,
      <<"i","m","a","g","e","s">>,
      <<"i","c","o","n","s">> }

\* The last alternative of the lookahead: some character of the rest is a dot.
LookaheadDot(rest) == HasChar(rest, ".")

\* A lookahead without the alternative for a dot.
NegativeLookaheadNoDot(rest) ==
    ~ \E w \in matcherExcludedPrefixes : StartsWith(rest, w)

\* A lookahead that excludes a word only when it is the whole first segment.
NegativeLookaheadWholeSegment(rest) ==
    /\ ~ \E w \in matcherExcludedPrefixes : rest = w \/ StartsWith(rest, w \o Slash)
    /\ ~ LookaheadDot(rest)

\* The negative lookahead, evaluated at the position after the first slash.
NegativeLookahead(rest) ==
    /\ ~ \E w \in matcherExcludedPrefixes : StartsWith(rest, w)
    /\ ~ LookaheadDot(rest)

\* TRUE iff the path name matches config.matcher, i.e. the proxy runs for it.
Matcher(pathname) ==
    /\ Len(pathname) >= 1
    /\ pathname[1] = "/"
    /\ NegativeLookahead(Tail(pathname))

(***************************************************************************)
(* proxy.ts: handleI18nRouting = createMiddleware(routing), the next-intl  *)
(* middleware for this routing configuration.                              *)
(***************************************************************************)
\* localePrefix "always": the prefix of a locale is "/" + locale.
getLocalePrefix(locale) == Slash \o locale

\* pathname === prefix || pathname.startsWith(prefix + "/")
PrefixMatchesExactly(pathname, prefix) ==
    pathname = prefix \/ StartsWith(pathname, prefix \o Slash)

\* A prefix test that is sensitive to letter case.
PrefixMatchesCaseSensitive(pathname, prefix) ==
    PrefixMatchesExactly(pathname, prefix)

\* The same test on the lower-cased path name and prefix.
PrefixMatchesLoosely(pathname, prefix) ==
    PrefixMatchesExactly(ToLowerCase(pathname), ToLowerCase(prefix))

NoPathnameMatch ==
    [found |-> FALSE, locale |-> Undefined, prefix |-> Undefined, exact |-> FALSE]

\* The index of the first locale, in registry order, whose prefix the path
\* name carries, exactly or up to letter case; 0 if there is none.
FirstPrefixHit(pathname) ==
    LET hits == { i \in 1..Len(routing.locales) :
                    \/ PrefixMatchesExactly(pathname, getLocalePrefix(routing.locales[i]))
                    \/ PrefixMatchesLoosely(pathname, getLocalePrefix(routing.locales[i])) }
    IN  IF hits = {} THEN 0 ELSE CHOOSE k \in hits : \A j \in hits : k <= j

\* A prefix match that takes a prefix of the wrong letter case for an exact one.
getPathnameMatchAnyCaseExact(pathname) ==
    LET i == FirstPrefixHit(pathname)
    IN  IF i = 0
        THEN NoPathnameMatch
        ELSE [found  |-> TRUE,
              locale |-> routing.locales[i],
              prefix |-> getLocalePrefix(routing.locales[i]),
              exact  |-> TRUE]

getPathnameMatch(pathname) ==
    LET i == FirstPrefixHit(pathname)
    IN  IF i = 0
        THEN NoPathnameMatch
        ELSE [found  |-> TRUE,
              locale |-> routing.locales[i],
              prefix |-> getLocalePrefix(routing.locales[i]),
              exact  |-> PrefixMatchesExactly(pathname,
                                              getLocalePrefix(routing.locales[i]))]

\* Without the trailingSlash option: drop a trailing slash, except of "/".
normalizeTrailingSlash(pathname) ==
    IF pathname # Slash /\ EndsWith(pathname, Slash)
    THEN SubSeq(pathname, 1, Len(pathname) - 1)
    ELSE pathname

\* The path name without its locale prefix (matched without regard to case).
getNormalizedPathname(pathname) ==
    LET p    == IF EndsWith(pathname, Slash) THEN pathname ELSE pathname \o Slash
        hits == { i \in 1..Len(routing.locales) :
                    StartsWith(ToLowerCase(p),
                               ToLowerCase(getLocalePrefix(routing.locales[i]) \o Slash)) }
        result ==
            IF hits = {}
            THEN p
            ELSE LET i == CHOOSE k \in hits : \A j \in hits : k <= j
                 IN  Slash \o SliceFrom(p, Len(getLocalePrefix(routing.locales[i])) + 1)
    IN  IF result # Slash THEN normalizeTrailingSlash(result) ELSE result

\* The NEXT_LOCALE cookie, if it holds a registered code.
getLocaleFromCookie(cookie) ==
    IF Truthy(cookie) /\ Includes(routing.locales, cookie) THEN cookie ELSE Undefined

\* A negotiation that ignores the Accept-Language header.
getAcceptLanguageLocaleIgnored(acceptLanguage) == routing.defaultLocale

\* The best match of the Accept-Language header among the registered codes,
\* the default locale if there is none.  A header is one language tag here.
getAcceptLanguageLocale(acceptLanguage) ==
    IF Truthy(acceptLanguage) /\ Includes(routing.locales, acceptLanguage)
    THEN acceptLanguage
    ELSE routing.defaultLocale

\* A resolution that prefers the cookie to the prefix of the path name.
resolveLocaleCookieFirst(req) ==
    LET fromPrefix == getPathnameMatch(req.path).locale
        fromCookie == getLocaleFromCookie(req.cookie)
    IN  IF fromCookie # Undefined THEN fromCookie
        ELSE IF fromPrefix # Undefined THEN fromPrefix
        ELSE getAcceptLanguageLocale(req.acceptLanguage)

\* Prefix of the path name, then the cookie, then Accept-Language, then default.
resolveLocale(req) ==
    LET fromPrefix == getPathnameMatch(req.path).locale
        fromCookie == getLocaleFromCookie(req.cookie)
    IN  IF fromPrefix # Undefined THEN fromPrefix
        ELSE IF fromCookie # Undefined THEN fromCookie
        ELSE getAcceptLanguageLocale(req.acceptLanguage)

\* prefix + pathname, where the root path name adds nothing to the prefix.
\* A formatter that leaves the locale prefix out.
formatPathnameUnprefixed(pathname, prefix) == pathname

formatPathname(pathname, prefix) ==
    prefix \o (IF pathname = Slash THEN <<>> ELSE pathname)

\* NextResponse.redirect(url)
redirect(url) ==
    [kind |-> "redirect", url |-> normalizeTrailingSlash(url), locale |-> Undefined]

\* NextResponse.rewrite(url) with the locale in the X-NEXT-INTL-LOCALE header
rewrite(url, locale) ==
    [kind |-> "rewrite", url |-> url, locale |-> locale]

\* const handleI18nRouting = createMiddleware(routing)
handleI18nRouting(req) ==
    LET locale == resolveLocale(req)
        hasMatchedDefaultLocale == locale = routing.defaultLocale
        unprefixedExternalPathname == getNormalizedPathname(req.path)
        pathnameMatch == getPathnameMatch(req.path)
        hasLocalePrefix == pathnameMatch.found
        isUnprefixedRouting ==
            \/ routing.localePrefix = "never"
            \/ hasMatchedDefaultLocale /\ routing.localePrefix = "as-needed"
        internalHref == formatPathname(unprefixedExternalPathname, getLocalePrefix(locale))
    IN  IF unprefixedExternalPathname = Slash /\ ~hasLocalePrefix
        THEN IF isUnprefixedRouting
             THEN rewrite(internalHref, locale)
             ELSE redirect(internalHref)
        ELSE IF hasLocalePrefix
             THEN IF routing.localePrefix = "never"
                  THEN redirect(unprefixedExternalPathname)
                  ELSE IF pathnameMatch.exact
                       THEN IF hasMatchedDefaultLocale /\ isUnprefixedRouting
                            THEN redirect(unprefixedExternalPathname)
                            ELSE rewrite(internalHref, locale)
                       ELSE redirect(formatPathname(unprefixedExternalPathname,
                                                    pathnameMatch.prefix))
             ELSE IF isUnprefixedRouting
                  THEN rewrite(internalHref, locale)
                  ELSE redirect(internalHref)

\* export async function proxy(request): returns the middleware's response.
proxy(req) == handleI18nRouting(req)

(***************************************************************************)
(* lib/seo/config.ts: siteConfig and getMetadata.                          *)
(***************************************************************************)
\* siteConfig: name and description are opaque texts, url is spelled out.
siteConfig ==
    [name        |-> <<"iZak Code - Full Stack Developer">>,
     description |-> <<"Full-stack developer specializing in React, Next.js, and TypeScript.">>,
     url         |-> <<"h","t","t","p","s",":","/","/","i","z","a","k","c","o","d","e",".","c","o","m">>,
     ogImage     |-> <<"/","o","g","-","i","m","a","g","e",".","p","n","g">>]

\* The text a translator bound to a bundle and a namespace returns for a key:
\* the entry namespace.key of the message file of that bundle.
Message(bundle, namespace, key) == <<"message">> \o bundle \o <<namespace, key>>

\* A translator that reads the bundle of the default locale for every locale.
getTranslationsDefault(locale, namespace) ==
    [bundle |-> GetRequestConfig(registry.defaultLocale).messages, namespace |-> namespace]

\* getTranslations({ locale, namespace }): next-intl runs the getRequestConfig
\* callback with the given locale as requestLocale and binds the translator
\* to the messages the callback returned.
getTranslations(locale, namespace) ==
    [bundle |-> GetRequestConfig(locale).messages, namespace |-> namespace]

\* t(key)
Translate(t, key) == Message(t.bundle, t.namespace, key)

\* Object.fromEntries(entries): one property per key, the last entry wins.
ObjectFromEntries(entries) ==
    LET keys == { entries[i][1] : i \in 1..Len(entries) }
        last(k) == CHOOSE i \in 1..Len(entries) :
                      /\ entries[i][1] = k
                      /\ \A j \in 1..Len(entries) : entries[j][1] = k => j <= i
    IN  [k \in keys |-> entries[last(k)][2]]

\* Alternates that list the other languages only.
alternatesOthersOnly(locale) ==
    [canonical |-> Slash \o locale,
     languages |-> ObjectFromEntries(
        SelectSeq([i \in 1..Len(registry.localesCodes) |->
                      <<registry.localesCodes[i], Slash \o registry.localesCodes[i]>>],
                  LAMBDA e : e[1] # locale))]

\* Alternates that point every language at the active locale's root.
alternatesActiveRoot(locale) ==
    [canonical |-> Slash \o locale,
     languages |-> ObjectFromEntries(
        [i \in 1..Len(registry.localesCodes) |->
            <<registry.localesCodes[i], Slash \o locale>>])]

\* Alternates whose canonical leaves the default locale without prefix.
alternatesBareDefault(locale) ==
    [canonical |-> IF locale = registry.defaultLocale THEN Slash ELSE Slash \o locale,
     languages |-> ObjectFromEntries(
        [i \in 1..Len(registry.localesCodes) |->
            <<registry.localesCodes[i], Slash \o registry.localesCodes[i]>>])]

\* The alternates member of the metadata: canonical is "/" + locale and
\* languages has the entry [code, "/" + code] for every code of localesCodes.
alternates(locale) ==
    [canonical |-> Slash \o locale,
     languages |-> ObjectFromEntries(
        [i \in 1..Len(registry.localesCodes) |->
            <<registry.localesCodes[i], Slash \o registry.localesCodes[i]>>])]

\* export async function getMetadata(locale)
getMetadata(locale) ==
    LET t == getTranslations(locale, "Metadata")
    IN  [metadataBase |-> siteConfig.url,
         title        |-> [default  |-> Translate(t, "title"),
                           template |-> <<"%s | ">> \o Translate(t, "title")],
         description  |-> Translate(t, "description"),
         openGraph    |-> [type        |-> "website",
                           locale      |-> locale,
                           url         |-> siteConfig.url \o Slash \o locale,
                           title       |-> Translate(t, "title"),
                           description |-> Translate(t, "description"),
                           siteName    |-> Translate(t, "title"),
                           images      |-> << [url |-> siteConfig.ogImage,
                                               alt |-> Translate(t, "title")] >>],
         alternates   |-> alternates(locale)]

(***************************************************************************)
(* lib/seo/schema.ts: JSON-LD objects.                                     *)
(***************************************************************************)
\* An absent overrides argument: spreading it adds no member.
NoOverrides == <<>>

\* { ...base, ...overrides }: the members of overrides replace those of base.
Spread(base, overrides) ==
    [k \in DOMAIN base \cup DOMAIN overrides |->
        IF k \in DOMAIN overrides THEN overrides[k] ELSE base[k]]

\* The value of a parameter declared `locale: Locale = "en"`.
LocaleOrDefault(locale) == IF locale = Undefined THEN <<"e","n">> ELSE locale

\* export function websiteSchema(locale = "en")
websiteSchema(locale) ==
    [type        |-> "WebSite",
     name        |-> siteConfig.name,
     url         |-> siteConfig.url,
     description |-> siteConfig.description,
     inLanguage  |-> LocaleOrDefault(locale)]

\* export function personSchema(overrides?, locale = "en")
personSchema(overrides, locale) ==
    Spread([type       |-> "Person",
            inLanguage |-> LocaleOrDefault(locale)],
           overrides)

(***************************************************************************)
(* components/LocaleSwitcher: the language switcher.                       *)
(***************************************************************************)
\* usePathname() of lib/i18n/navigation: the path name of the page without
\* the prefix of the active locale.
usePathname(path, locale) ==
    LET prefix == getLocalePrefix(locale)
    IN  IF path = <<>> \/ path = prefix THEN Slash
        ELSE IF StartsWith(path, prefix \o Slash) THEN SliceFrom(path, Len(prefix))
        ELSE path

\* <Link href={pathname || "/"} locale={code}>: the link to the page under
\* the locale, written with the locale prefix of the routing.
Link(pathname, code) ==
    [locale |-> code,
     href   |-> formatPathname(IF pathname = <<>> THEN Slash ELSE pathname,
                               getLocalePrefix(code))]

\* A current record that falls back to the record of the default locale.
currentLocaleDefault(locale) ==
    LET found == Find(registry.locales, locale)
    IN  IF found # NoLocaleConfig THEN found
        ELSE Find(registry.locales, registry.defaultLocale)

\* const currentLocale = locales.find((l) => l.code === locale) || locales[0]
currentLocale(locale) ==
    LET found == Find(registry.locales, locale)
    IN  IF found # NoLocaleConfig THEN found ELSE registry.locales[1]

\* const otherLocale = locales.find((l) => l.code !== locale)
otherLocale(locale) ==
    LET hits == { i \in 1..Len(registry.locales) : registry.locales[i].code # locale }
    IN  IF hits = {} THEN NoLocaleConfig
        ELSE registry.locales[CHOOSE i \in hits : \A j \in hits : i <= j]

\* Options that put the default locale first.
dropdownOptionsDefaultFirst ==
    SelectSeq(registry.locales, LAMBDA l : l.code = registry.defaultLocale)
        \o SelectSeq(registry.locales, LAMBDA l : l.code # registry.defaultLocale)

\* The array the dropdown maps over: locales.
dropdownOptions == registry.locales

\* locales.map((localeOption) => <DropdownMenuItem ...><Link .../>): one
\* item per record, in the order of the array.
DropdownMenuItems(locale, pathname) ==
    [i \in 1..Len(dropdownOptions) |->
        LET localeOption == dropdownOptions[i]
            link         == Link(pathname, localeOption.code)
        IN  [key         |-> localeOption.code,
             locale      |-> link.locale,
             href        |-> link.href,
             label       |-> localeOption.nativeName,
             dir         |-> localeOption.direction,
             disabled    |-> localeOption.code = locale,
             ariaCurrent |-> IF localeOption.code = locale THEN "true" ELSE "undefined"]]

\* export default function LocaleSwitcher({ variant }): the toggle of a
\* registry of two locales, else the dropdown.
LocaleSwitcher(locale, pathname, variant) ==
    IF variant = "toggle" /\ Len(registry.locales) = 2 /\ otherLocale(locale) # NoLocaleConfig
    THEN [variant       |-> "toggle",
          locale        |-> locale,
          currentLocale |-> currentLocale(locale),
          links         |-> << [key         |-> otherLocale(locale).code,
                                locale      |-> Link(pathname, otherLocale(locale).code).locale,
                                href        |-> Link(pathname, otherLocale(locale).code).href,
                                label       |-> otherLocale(locale).nativeName,
                                dir         |-> otherLocale(locale).direction,
                                disabled    |-> FALSE,
                                ariaCurrent |-> "undefined"] >>]
    ELSE [variant       |-> "dropdown",
          locale        |-> locale,
          currentLocale |-> currentLocale(locale),
          links         |-> DropdownMenuItems(locale, pathname)]

(***************************************************************************)
(* app/[locale]/layout.tsx: generateStaticParams; app/robots.ts: sitemap.  *)
(***************************************************************************)
\* Static params for the default locale only.
generateStaticParamsDefaultOnly == << [locale |-> defaultLocale] >>

\* export function generateStaticParams(): the literal array of the source.
generateStaticParams ==
    << [locale |-> <<"a","r">>], [locale |-> <<"f","r">>], [locale |-> <<"e","n">>] >>

\* export default function sitemap(): one route, the base URL of the site.
sitemap ==
    LET baseUrl == siteConfig.url
        routes  == << [url |-> baseUrl, changeFrequency |-> "monthly", priority |-> 1] >>
    IN  routes

(***************************************************************************)
(* Inputs: request paths, cookies, headers and locale candidates.          *)
(***************************************************************************)
Segments ==
    { <<"a","r">>,
      <<"f","r">>,
      <<"e","n">>,
      <<"A","r">>,
      <<"x","x">>,
      <<"a","b","o","u","t">>,
      <<"p","r","o","j","e","c","t","s">>,
      <<"a","p","i">>,
      <<"u","s","e","r","s">>,
      <<"_","n","e","x","t">>,
      <<"s","t","a","t","i","c">>,
      <<"x",".","j","s">>,
      <<"f","a","v","i","c","o","n",".","i","c","o">>,
      <<"i","m","a","g","e","s">>,
      <<"i","c","o","n","s">>,
      <<"a","p","i","a","r","y">> }

\* "/" for no segments, else "/" + segment for each segment.
RECURSIVE PathOf(_)
PathOf(segs) ==
    IF Len(segs) = 0 THEN <<>>
    ELSE Slash \o Head(segs) \o PathOf(Tail(segs))

\* The segments drawn for the second and later positions of a path.
LaterSegments ==
    { <<"a","b","o","u","t">>, <<"u","s","e","r","s">>, <<"s","t","a","t","i","c">>,
      <<"x",".","j","s">>, <<"a","p","i">>, <<"e","n">>, <<"x">> }

\* "/", and every path of one segment of Segments followed by fewer than
\* MaxSegs segments of LaterSegments.
Paths ==
    { Slash } \cup
    { PathOf(<<first>> \o rest) :
        first \in Segments,
        rest \in UNION { [1..k -> LaterSegments] : k \in 0..(MaxSegs - 1) } }

Cookies == { Undefined, <<"f","r">>, <<"x","x">> }

AcceptLanguages == { Undefined, <<"a","r">> }

Candidates ==
    Segments \cup { Undefined, <<>>, <<"U+00E9">>, <<"E","N">>, <<"e","n","x">> }

\* The first segment of a path name, undefined for "/".
FirstSegment(pathname) ==
    LET rest == Tail(pathname)
        cut  == { i \in 1..Len(rest) : rest[i] = "/" }
    IN  IF rest = <<>> THEN Undefined
        ELSE IF cut = {} THEN rest
        ELSE SubSeq(rest, 1, (CHOOSE k \in cut : \A j \in cut : k <= j) - 1)

(***************************************************************************)
(* The state machine of one navigation.                                    *)
(***************************************************************************)
NoRequest == [path |-> <<>>, cookie |-> Undefined, acceptLanguage |-> Undefined]

NoResponse == [kind |-> "none", url |-> <<>>, locale |-> Undefined]

NoConfig ==
    [candidate |-> Undefined, locale |-> Undefined, messages |-> Undefined,
     threw |-> FALSE]

\* No Metadata object yet.
NoMetadata ==
    [metadataBase |-> Undefined,
     title        |-> [default |-> Undefined, template |-> Undefined],
     description  |-> Undefined,
     openGraph    |-> [type |-> "undefined", locale |-> Undefined, url |-> Undefined,
                       title |-> Undefined, description |-> Undefined,
                       siteName |-> Undefined, images |-> <<>>],
     alternates   |-> [canonical |-> Undefined, languages |-> <<>>]]

\* Nothing rendered yet.
NoPage ==
    [rootLang |-> Undefined, rootJsonLd |-> <<>>, localeLayout |-> FALSE,
     lang |-> Undefined, dir |-> "undefined", messages |-> Undefined, jsonLd |-> <<>>]

\* No LocaleSwitcher rendered yet.
NoSwitcher ==
    [variant |-> "none", locale |-> Undefined, currentLocale |-> NoLocaleConfig,
     links |-> <<>>]

NoLookup ==
    [code |-> Undefined, isRTL |-> FALSE, direction |-> "undefined",
     opposite |-> "undefined", displayName |-> Undefined, threw |-> FALSE]

\* The module lib/i18n/config.ts as it is loaded.
LoadedRegistry ==
    [locales |-> locales, localesCodes |-> localesCodes, defaultLocale |-> defaultLocale]

\* The path names usePathname() returns to a LocaleSwitcher rendered on its own.
SwitcherPathnames == { Slash, <<"/","a","b","o","u","t">> }

\* The codes handed to the helpers of lib/i18n/utils.ts.
LookupCodes == Candidates \ { Undefined }

Init ==
    /\ pc = "idle"
    /\ request = NoRequest
    /\ handled = FALSE
    /\ routed = NoResponse
    /\ response = NoResponse
    /\ hops = 0
    /\ reqConfig = NoConfig
    /\ registry = LoadedRegistry
    /\ lookup = NoLookup
    /\ metadata = NoMetadata
    /\ page = NoPage
    /\ switcher = NoSwitcher
    /\ staticParams = <<>>
    /\ sitemapRoutes = <<>>
    /\ inflight = <<>>

\* A request arrives.
Receive ==
    /\ pc = "idle"
    /\ \E p \in Paths, c \in Cookies, a \in AcceptLanguages :
          request' = [path |-> p, cookie |-> c, acceptLanguage |-> a]
    /\ pc' = "received"
    /\ UNCHANGED <<handled, routed, response, hops, reqConfig, registry, lookup, metadata, page,
                   siteVars>>

\* config.matcher does not match: the framework serves the path, no proxy.
Skip ==
    /\ pc = "received"
    /\ ~Matcher(request.path)
    /\ handled' = FALSE
    /\ routed' = NoResponse
    /\ response' = [kind |-> "next", url |-> request.path, locale |-> Undefined]
    /\ pc' = "done"
    /\ UNCHANGED <<request, hops, reqConfig, registry, lookup, metadata, page,
                   siteVars>>

\* config.matcher matches: proxy(request) answers.
Proxy ==
    /\ pc = "received"
    /\ Matcher(request.path)
    /\ handled' = TRUE
    /\ routed' = handleI18nRouting(request)
    /\ response' = proxy(request)
    /\ pc' = "done"
    /\ UNCHANGED <<request, hops, reqConfig, registry, lookup, metadata, page,
                   siteVars>>

\* The client follows a redirect with the same cookie and headers.
FollowRedirect ==
    /\ pc = "done"
    /\ response.kind = "redirect"
    /\ hops < MaxHops
    /\ request' = [request EXCEPT !.path = response.url]
    /\ hops' = hops + 1
    /\ pc' = "received"
    /\ UNCHANGED <<handled, routed, response, reqConfig, registry, lookup, metadata, page,
                   siteVars>>

\* Rendering runs the getRequestConfig callback.  After a pass-through the
\* awaited requestLocale is the routed locale; for a path the proxy skipped
\* it is the first segment, or undefined outside the [locale] segment; with
\* no request in flight (static generation) it is any candidate.
RequestConfig ==
    /\ \E c \in Candidates :
          /\ \/ pc = "done" /\ response.kind = "rewrite" /\ c = response.locale
             \/ pc = "done" /\ response.kind = "next"
                  /\ c \in {FirstSegment(request.path), Undefined}
             \/ pc = "idle"
          /\ reqConfig' = GetRequestConfig(c)
    /\ pc' = "rendered"
    /\ UNCHANGED <<request, handled, routed, response, hops, registry, lookup, metadata, page,
                   siteVars>>

\* app/[locale]/layout.tsx, generateMetadata({ params }): the locale param is
\* the [locale] segment of the page, the candidate the request configuration
\* was computed for; a page outside the segment has no such param.
generateMetadata ==
    /\ pc = "rendered"
    /\ reqConfig.candidate # Undefined
    /\ metadata' = getMetadata(reqConfig.candidate)
    /\ pc' = "meta"
    /\ UNCHANGED <<request, handled, routed, response, hops, reqConfig, registry, lookup,
                   page,
                   siteVars>>

\* app/layout.tsx, RootLayout: the outermost layout of every page, rendered
\* without params; its two schemas are built with their default locale.
AppRootLayout ==
    /\ \/ pc = "meta"
       \/ pc = "rendered" /\ reqConfig.candidate = Undefined
    /\ page' = [page EXCEPT !.rootLang = <<"e","n">>,
                            !.rootJsonLd = << websiteSchema(Undefined),
                                              personSchema(NoOverrides, Undefined) >>]
    /\ pc' = "root"
    /\ UNCHANGED <<request, handled, routed, response, hops, reqConfig, registry, lookup,
                   metadata,
                   siteVars>>

\* app/[locale]/layout.tsx, RootLayout: the layout of the pages under the
\* [locale] segment; getMessages() returns the messages of the request
\* configuration.
LocaleRootLayout ==
    /\ pc = "root"
    /\ reqConfig.candidate # Undefined
    /\ LET locale == reqConfig.candidate
       IN  page' = [page EXCEPT !.localeLayout = TRUE,
                                !.lang = locale,
                                !.dir = getDirection(locale),
                                !.messages = reqConfig.messages,
                                !.jsonLd = << websiteSchema(locale),
                                              personSchema(NoOverrides, locale) >>]
    /\ pc' = "page"
    /\ UNCHANGED <<request, handled, routed, response, hops, reqConfig, registry, lookup,
                   metadata,
                   siteVars>>

\* The LocaleSwitcher component renders, in a page under the provider of
\* app/[locale]/layout.tsx, where useLocale() is the locale of the request
\* configuration, or on its own under a provider of any locale.
RenderLocaleSwitcher ==
    /\ \E v \in {"toggle", "dropdown"} :
          \/ /\ pc = "page"
             /\ switcher' = LocaleSwitcher(reqConfig.locale,
                                           usePathname(request.path, reqConfig.locale), v)
          \/ /\ pc = "idle"
             /\ \E l \in LookupCodes, p \in SwitcherPathnames :
                   switcher' = LocaleSwitcher(l, p, v)
    /\ pc' = "switched"
    /\ UNCHANGED <<request, handled, routed, response, hops, reqConfig, registry, lookup,
                   metadata, page, staticParams, sitemapRoutes, inflight>>

\* The build calls generateStaticParams to learn the [locale] values to
\* generate statically.
GenerateStaticParams ==
    /\ pc = "idle"
    /\ staticParams' = generateStaticParams
    /\ pc' = "built"
    /\ UNCHANGED <<request, handled, routed, response, hops, reqConfig, registry, lookup,
                   metadata, page, switcher, sitemapRoutes, inflight>>

\* The framework serves /sitemap.xml from the value of sitemap().
Sitemap ==
    /\ pc = "idle"
    /\ sitemapRoutes' = sitemap
    /\ pc' = "sitemapped"
    /\ UNCHANGED <<request, handled, routed, response, hops, reqConfig, registry, lookup,
                   metadata, page, switcher, staticParams, inflight>>

\* A lookup that reverses the array of records in place before it searches.
LookupReversing ==
    /\ pc = "idle"
    /\ \E c \in LookupCodes :
          lookup' = [code        |-> c,
                     isRTL       |-> isRTL(c),
                     direction   |-> getDirection(c),
                     opposite    |-> getOppositeDirection(c),
                     displayName |-> getLocaleDisplayName(c),
                     threw       |-> HelpersThrow(c)]
    /\ registry' = [registry EXCEPT
                       !.locales = [i \in 1..Len(registry.locales) |->
                                       registry.locales[Len(registry.locales) + 1 - i]]]
    /\ pc' = "looked"
    /\ UNCHANGED <<request, handled, routed, response, hops, reqConfig, metadata, page,
                   siteVars>>

\* A component calls the helpers of lib/i18n/utils.ts with one code.
Lookup ==
    /\ pc = "idle"
    /\ \E c \in LookupCodes :
          lookup' = [code        |-> c,
                     isRTL       |-> isRTL(c),
                     direction   |-> getDirection(c),
                     opposite    |-> getOppositeDirection(c),
                     displayName |-> getLocaleDisplayName(c),
                     threw       |-> HelpersThrow(c)]
    /\ pc' = "looked"
    /\ UNCHANGED <<request, handled, routed, response, hops, reqConfig, registry,
                   metadata, page,
                   siteVars>>

\* The request is over.
Complete ==
    /\ pc \in {"done", "rendered", "looked", "meta", "root", "page", "switched", "built",
              "sitemapped"}
    /\ pc' = "idle"
    /\ request' = NoRequest
    /\ handled' = FALSE
    /\ routed' = NoResponse
    /\ response' = NoResponse
    /\ hops' = 0
    /\ reqConfig' = NoConfig
    /\ lookup' = NoLookup
    /\ metadata' = NoMetadata
    /\ page' = NoPage
    /\ switcher' = NoSwitcher
    /\ staticParams' = <<>>
    /\ sitemapRoutes' = <<>>
    /\ UNCHANGED <<registry, inflight>>

Next ==
    \/ Receive
    \/ Skip
    \/ Proxy
    \/ FollowRedirect
    \/ RequestConfig
    \/ generateMetadata
    \/ AppRootLayout
    \/ LocaleRootLayout
    \/ RenderLocaleSwitcher
    \/ GenerateStaticParams
    \/ Sitemap
    \/ Lookup
    \/ Complete

Spec == Init /\ [][Next]_vars

(***************************************************************************)
(* Process start: lib/i18n/config.ts and lib/i18n/routing.ts are evaluated *)
(* once, for any registry the source of config.ts could spell out.         *)
(***************************************************************************)
\* Registries of one to MaxLocales records drawn from the three records of
\* config.ts, repetitions allowed, with any of the three codes as default.
CandidateRegistries ==
    { [locales       |-> recs,
       localesCodes  |-> [i \in 1..Len(recs) |-> recs[i].code],
       defaultLocale |-> d] :
        recs \in UNION { [1..n -> { locales[i] : i \in 1..Len(locales) }] :
                            n \in 1..MaxLocales },
        d \in { locales[i].code : i \in 1..Len(locales) } }

InitStartup ==
    /\ pc = "boot"
    /\ registry \in CandidateRegistries
    /\ request = NoRequest
    /\ handled = FALSE
    /\ routed = NoResponse
    /\ response = NoResponse
    /\ hops = 0
    /\ reqConfig = NoConfig
    /\ lookup = NoLookup
    /\ metadata = NoMetadata
    /\ page = NoPage
    /\ switcher = NoSwitcher
    /\ staticParams = <<>>
    /\ sitemapRoutes = <<>>
    /\ inflight = <<>>

\* The modules are evaluated: config.ts exports the literals as written and
\* routing.ts hands them to defineRouting; neither inspects the records, so
\* the process is ready for requests.
LoadConfig ==
    /\ pc = "boot"
    /\ pc' = "idle"
    /\ UNCHANGED <<request, handled, routed, response, hops, reqConfig, registry, lookup,
                   metadata, page,
                   siteVars>>

NextStartup ==
    \/ LoadConfig
    \/ Lookup
    \/ RenderLocaleSwitcher
    \/ Complete

SpecStartup == InitStartup /\ [][NextStartup]_vars

(***************************************************************************)
(* Concurrent requests: the server interleaves the steps of MaxRequests    *)
(* requests.  Each request has its own request object, response, request   *)
(* configuration and Metadata object; the modules share the registry only. *)
(***************************************************************************)
ConcurrentPaths ==
    { Slash,
      <<"/","a","b","o","u","t">>,
      <<"/","a","r","/","a","b","o","u","t">>,
      <<"/","A","r">>,
      <<"/","f","r">>,
      <<"/","x",".","j","s">> }

ConcurrentCookies == { Undefined, <<"f","r">> }

\* A slot with no request in it.
NoInflight ==
    [pc |-> "idle", request |-> NoRequest, handled |-> FALSE, response |-> NoResponse,
     reqConfig |-> NoConfig, dir |-> "undefined", metadata |-> NoMetadata]

\* The variables of the single-request pipeline, idle in this specification.
pipelineVars ==
    <<pc, request, handled, routed, response, hops, reqConfig, registry, lookup, metadata,
      page, switcher, staticParams, sitemapRoutes>>

InitConcurrent ==
    /\ pc = "concurrent"
    /\ request = NoRequest
    /\ handled = FALSE
    /\ routed = NoResponse
    /\ response = NoResponse
    /\ hops = 0
    /\ reqConfig = NoConfig
    /\ registry = LoadedRegistry
    /\ lookup = NoLookup
    /\ metadata = NoMetadata
    /\ page = NoPage
    /\ switcher = NoSwitcher
    /\ staticParams = <<>>
    /\ sitemapRoutes = <<>>
    /\ inflight = [i \in 1..MaxRequests |-> NoInflight]

\* Request i arrives.
ReceiveConcurrent(i) ==
    /\ inflight[i].pc = "idle"
    /\ \E p \in ConcurrentPaths, c \in ConcurrentCookies :
          inflight' = [inflight EXCEPT
                          ![i].request = [path |-> p, cookie |-> c,
                                          acceptLanguage |-> Undefined],
                          ![i].pc = "received"]
    /\ UNCHANGED pipelineVars

\* config.matcher and proxy(request) for request i.
ProxyConcurrent(i) ==
    /\ inflight[i].pc = "received"
    /\ LET req == inflight[i].request
       IN  inflight' = [inflight EXCEPT
                          ![i].handled = Matcher(req.path),
                          ![i].response =
                              IF Matcher(req.path) THEN proxy(req)
                              ELSE [kind |-> "next", url |-> req.path, locale |-> Undefined],
                          ![i].pc = "done"]
    /\ UNCHANGED pipelineVars

\* A request locale kept in one slot of the module, written by request 1.
RequestLocaleShared(i) ==
    IF inflight[1].response.kind = "rewrite"
    THEN inflight[1].response.locale
    ELSE FirstSegment(inflight[1].request.path)

\* The awaited requestLocale of request i: the locale header the router set
\* on this request, else the [locale] segment of its path.
RequestLocaleOf(i) ==
    IF inflight[i].response.kind = "rewrite"
    THEN inflight[i].response.locale
    ELSE FirstSegment(inflight[i].request.path)

\* Request i renders: the getRequestConfig callback, getDirection and
\* getMetadata run with the locale of request i.
RenderConcurrent(i) ==
    /\ inflight[i].pc = "done"
    /\ inflight[i].response.kind \in {"rewrite", "next"}
    /\ LET locale == RequestLocaleOf(i)
       IN  inflight' = [inflight EXCEPT
                          ![i].reqConfig = GetRequestConfig(locale),
                          ![i].dir = getDirection(locale),
                          ![i].metadata = getMetadata(locale),
                          ![i].pc = "rendered"]
    /\ UNCHANGED pipelineVars

\* Request i is over.
CompleteConcurrent(i) ==
    /\ inflight[i].pc \in {"done", "rendered"}
    /\ inflight' = [inflight EXCEPT ![i] = NoInflight]
    /\ UNCHANGED pipelineVars

NextConcurrent ==
    \/ \E i \in 1..MaxRequests : ReceiveConcurrent(i)
    \/ \E i \in 1..MaxRequests : ProxyConcurrent(i)
    \/ \E i \in 1..MaxRequests : RenderConcurrent(i)
    \/ \E i \in 1..MaxRequests : CompleteConcurrent(i)

SpecConcurrent == InitConcurrent /\ [][NextConcurrent]_vars

(***************************************************************************)
(* Properties.                                                             *)
(***************************************************************************)
RegisteredCodes == { localesCodes[i] : i \in 1..Len(localesCodes) }

\* The proxy answered the request in flight.
Answered == pc \in {"done", "rendered"} /\ handled

\* The request in flight is over, answered by the proxy or skipped by it.
Decided == pc \in {"done", "rendered"} /\ response.kind # "none"

\* C1 (resolution totality): whatever the candidate is (absent, empty, not
\* ASCII, a registered code or any other string), the locale the request
\* config returns is one of ar, fr, en, and the callback does not throw.
C1_ResolutionTotal ==
    pc = "rendered" =>
        /\ reqConfig.locale \in { <<"a","r">>, <<"f","r">>, <<"e","n">> }
        /\ reqConfig.locale \in RegisteredCodes
        /\ ~reqConfig.threw

\* The callback ran for the empty string.
C1_Witness ==
    pc = "rendered" /\ reqConfig.candidate = <<>> /\ reqConfig.locale = <<"e","n">>

C3_ExactMatch ==
    pc = "rendered" =>
        /\ reqConfig.candidate \in RegisteredCodes
              => reqConfig.locale = reqConfig.candidate
        /\ ( /\ reqConfig.candidate # Undefined
             /\ reqConfig.candidate \notin RegisteredCodes
             /\ ToLowerCase(reqConfig.candidate) \in RegisteredCodes )
              => reqConfig.locale = defaultLocale

\* The callback ran for "Ar", which differs from "ar" in letter case only.
C3_Witness ==
    pc = "rendered" /\ reqConfig.candidate = <<"A","r">> /\ reqConfig.locale = <<"e","n">>

\* The code the router resolves for a request without a locale prefix: a
\* registered NEXT_LOCALE cookie, else a registered Accept-Language tag, else en.
PreferredCode(req) ==
    IF req.cookie \in RegisteredCodes THEN req.cookie
    ELSE IF req.acceptLanguage \in RegisteredCodes THEN req.acceptLanguage
    ELSE <<"e","n">>

\* The path name carries no locale segment: it is "/" or its first segment is
\* no registered code in any letter case.
HasNoLocaleSegment(pathname) ==
    \/ FirstSegment(pathname) = Undefined
    \/ ToLowerCase(FirstSegment(pathname)) \notin RegisteredCodes

\* The path name prefixed with a locale code: /c for "/", else /c + path.
Prefixed(code, pathname) ==
    Slash \o code \o (IF pathname = Slash THEN <<>> ELSE pathname)

C7_PrefixedPassThrough ==
    /\ (Decided /\ FirstSegment(request.path) \in RegisteredCodes) =>
          response.kind # "redirect"
    /\ (Answered /\ FirstSegment(request.path) \in RegisteredCodes) =>
          /\ response.kind = "rewrite"
          /\ response.url = request.path
          /\ handleI18nRouting([request EXCEPT !.path = response.url]).kind = "rewrite"
          /\ handleI18nRouting([request EXCEPT !.path = response.url]).url = response.url

\* /ar/about, requested with the cookie of another locale, was passed through.
C7_Witness ==
    /\ Answered
    /\ request.path = <<"/","a","r","/","a","b","o","u","t">>
    /\ request.cookie = <<"f","r">>
    /\ response.kind = "rewrite"

\* C8 (two outcomes): the answer to a handled request is a redirect or a
\* pass-through; it is a redirect exactly when the first segment of the path
\* is not the resolved code; a pass-through keeps the path and carries the
\* resolved code; and the proxy returns what the middleware built.
C8_RedirectOrPassThrough ==
    Answered =>
        /\ response.kind \in {"redirect", "rewrite"}
        /\ (response.kind = "redirect")
              <=> (FirstSegment(request.path) # resolveLocale(request))
        /\ response.kind = "rewrite" =>
              /\ response.url = request.path
              /\ response.locale = resolveLocale(request)
              /\ response.locale = FirstSegment(request.path)
        /\ response = routed

\* A navigation that was redirected once and then passed through.
C8_Witness ==
    /\ Answered
    /\ hops = 1
    /\ response.kind = "rewrite"
    /\ response.locale = <<"f","r">>

\* C9 (matcher examples): /api/users, /_next/static/x.js and /favicon.ico are
\* never handled by the proxy, hence never redirected; /, /ar and /projects
\* are handled and answered by the router.
C9_MatcherExamples ==
    Decided =>
        /\ request.path \in { <<"/","a","p","i","/","u","s","e","r","s">>,
                              <<"/","_","n","e","x","t","/","s","t","a","t","i","c",
                                "/","x",".","j","s">>,
                              <<"/","f","a","v","i","c","o","n",".","i","c","o">> }
              => (~handled /\ response.kind = "next")
        /\ request.path \in { <<"/">>, <<"/","a","r">>,
                              <<"/","p","r","o","j","e","c","t","s">> }
              => (handled /\ response.kind \in {"redirect", "rewrite"})

\* /favicon.ico was requested and left to the framework.
C9_Witness ==
    /\ Decided
    /\ request.path = <<"/","f","a","v","i","c","o","n",".","i","c","o">>
    /\ ~handled

Looked == pc = "looked"

\* The records of the loaded registry that carry the code.
RecordsOf(code) ==
    { registry.locales[i] : i \in { j \in 1..Len(registry.locales) :
                                       registry.locales[j].code = code } }

\* C11: for every registered code, isRTL is true exactly when the code's
\* record has direction rtl, isRTL agrees with getDirection being "rtl",
\* getOppositeDirection is the other of the two directions, and ar is rtl
\* while fr and en are ltr.
C11_DirectionConsistent ==
    Looked /\ lookup.code \in RegisteredCodes =>
        /\ \A rec \in RecordsOf(lookup.code) :
              lookup.isRTL <=> rec.direction = "rtl"
        /\ lookup.isRTL <=> lookup.direction = "rtl"
        /\ lookup.direction \in {"ltr", "rtl"}
        /\ lookup.opposite \in {"ltr", "rtl"} \ { lookup.direction }
        /\ lookup.code = <<"a","r">> => lookup.direction = "rtl"
        /\ lookup.code \in { <<"f","r">>, <<"e","n">> } => lookup.direction = "ltr"

C11_Witness ==
    /\ Looked
    /\ lookup.code = <<"a","r">>
    /\ lookup.isRTL
    /\ lookup.direction = "rtl"
    /\ lookup.opposite = "ltr"

\* C12: for a code that is not registered, none of isRTL, getDirection,
\* getOppositeDirection and getLocaleDisplayName throws, and getDirection
\* returns the direction of the registry's default locale.
C12_UnknownCodeTotal ==
    Looked /\ lookup.code \notin RegisteredCodes =>
        /\ ~lookup.threw
        /\ \A rec \in RecordsOf(registry.defaultLocale) :
              lookup.direction = rec.direction
        /\ RecordsOf(registry.defaultLocale) # {}

C12_Witness ==
    /\ Looked
    /\ lookup.code = <<"x","x">>
    /\ ~lookup.threw
    /\ lookup.direction = "ltr"
    /\ lookup.opposite = "rtl"

\* C13: getLocaleDisplayName returns the nativeName of the record when the
\* code is registered and the code itself when it is not; it never returns
\* undefined.
C13_DisplayName ==
    Looked =>
        /\ lookup.code \in RegisteredCodes =>
              \A rec \in RecordsOf(lookup.code) : lookup.displayName = rec.nativeName
        /\ lookup.code \notin RegisteredCodes => lookup.displayName = lookup.code
        /\ lookup.displayName # Undefined

C13_Witness ==
    /\ Looked
    /\ lookup.code = <<"f","r">>
    /\ lookup.displayName = <<"F","r","a","n","U+00E7","a","i","s">>

\* generateMetadata returned the Metadata object of the page.
MetadataBuilt == pc = "meta"

\* The locale param of the page whose metadata was built.
ActiveLocale == reqConfig.candidate

\* The page was reached through the router, which passed the request through.
PassedThrough == handled /\ response.kind = "rewrite"

\* C14: alternates.languages has exactly one entry per registered code and
\* no other key, whichever locale is active.
C14_AlternatesComplete ==
    MetadataBuilt =>
        /\ DOMAIN metadata.alternates.languages = RegisteredCodes
        /\ Cardinality(DOMAIN metadata.alternates.languages) = Len(registry.localesCodes)

C14_Witness ==
    /\ MetadataBuilt
    /\ ActiveLocale = <<"a","r">>
    /\ DOMAIN metadata.alternates.languages = { <<"a","r">>, <<"f","r">>, <<"e","n">> }

\* The path of the page in flight with its locale prefix replaced by "/" + code.
PathUnder(code) ==
    Slash \o code \o SliceFrom(request.path, Len(Slash \o response.locale))

\* C15 as stated: each entry of alternates.languages maps its code to the
\* current page path under that code (for /en/about the fr entry is /fr/about).
C15_Original ==
    MetadataBuilt /\ PassedThrough =>
        \A c \in DOMAIN metadata.alternates.languages :
            metadata.alternates.languages[c] = PathUnder(c)

\* C15: each entry of alternates.languages maps its code c to the root path
\* "/" + c of that locale, whatever the path of the current page.
C15_AlternatesLocaleRoot ==
    MetadataBuilt =>
        \A c \in DOMAIN metadata.alternates.languages :
            metadata.alternates.languages[c] = Slash \o c

C15_Witness ==
    /\ MetadataBuilt
    /\ PassedThrough
    /\ request.path = <<"/","e","n","/","a","b","o","u","t">>
    /\ metadata.alternates.languages[<<"f","r">>] = <<"/","f","r">>

\* C16: for every active registered locale, the default included, canonical
\* is "/" + that locale's code, a path the router matches and passes through
\* whatever the cookie and the Accept-Language header.
C16_CanonicalPrefixed ==
    MetadataBuilt /\ ActiveLocale \in RegisteredCodes =>
        /\ metadata.alternates.canonical = Slash \o ActiveLocale
        /\ Matcher(metadata.alternates.canonical)
        /\ \A c \in Cookies, a \in AcceptLanguages :
              LET res == proxy([path |-> metadata.alternates.canonical,
                                cookie |-> c, acceptLanguage |-> a])
              IN  res.kind = "rewrite" /\ res.locale = ActiveLocale

C16_Witness ==
    /\ MetadataBuilt
    /\ ActiveLocale = registry.defaultLocale
    /\ metadata.alternates.canonical = <<"/","e","n">>

\* C18: for a registered locale, title, title template, description and the
\* Open Graph title, description and site name are the "Metadata" strings of
\* that locale's bundle, never the name or description of siteConfig and
\* never the strings of another locale.
C18_TranslatedStrings ==
    MetadataBuilt /\ ActiveLocale \in RegisteredCodes =>
        LET title       == Message(ActiveLocale, "Metadata", "title")
            description == Message(ActiveLocale, "Metadata", "description")
        IN  /\ metadata.title.default = title
            /\ metadata.title.template = <<"%s | ">> \o title
            /\ metadata.description = description
            /\ metadata.openGraph.title = title
            /\ metadata.openGraph.description = description
            /\ metadata.openGraph.siteName = title
            /\ { metadata.title.default, metadata.description,
                 metadata.openGraph.title, metadata.openGraph.description,
                 metadata.openGraph.siteName }
                 \cap { siteConfig.name, siteConfig.description } = {}

C18_Witness ==
    /\ MetadataBuilt
    /\ ActiveLocale = <<"a","r">>
    /\ metadata.title.default = <<"message","a","r","Metadata","title">>
    /\ metadata.openGraph.siteName = <<"message","a","r","Metadata","title">>

\* The layouts of the page in flight have rendered, the outermost first.
LayoutsRendered == pc \in {"root", "page"}

\* Every JSON-LD object rendered for the page so far.
RenderedJsonLd == page.rootJsonLd \o page.jsonLd

\* C17: every JSON-LD object rendered for a page has inLanguage equal to the
\* locale resolved for the request, never a default placeholder.
C17_InLanguageResolved ==
    LayoutsRendered =>
        \A i \in 1..Len(RenderedJsonLd) :
            RenderedJsonLd[i].inLanguage = reqConfig.locale

\* Two records of the registry share a code.
HasDuplicateCodes(reg) ==
    \E i, j \in 1..Len(reg.locales) :
        i # j /\ reg.locales[i].code = reg.locales[j].code

\* The number of records whose code is the default code.
DefaultCount(reg) ==
    Cardinality({ i \in 1..Len(reg.locales) : reg.locales[i].code = reg.defaultLocale })

\* C19: in the loaded registry the codes are pairwise distinct and non-empty
\* and exactly one record is the default.
C19_RegistryInvariants ==
    /\ ~HasDuplicateCodes(registry)
    /\ \A i \in 1..Len(registry.locales) :
          registry.locales[i].code \notin { <<>>, Undefined }
    /\ DefaultCount(registry) = 1
    /\ registry.localesCodes = [i \in 1..Len(registry.locales) |-> registry.locales[i].code]

C19_Witness ==
    /\ Looked
    /\ lookup.code = registry.defaultLocale
    /\ Len(registry.locales) = 3
    /\ registry.defaultLocale = <<"e","n">>
    /\ DefaultCount(registry) = 1

\* The registry has duplicate codes, or zero or more than one default.
Malformed(reg) == HasDuplicateCodes(reg) \/ DefaultCount(reg) # 1

C21_RegistryImmutable ==
    /\ registry.locales = locales
    /\ registry.localesCodes = localesCodes
    /\ registry.defaultLocale = defaultLocale

C21_Witness ==
    /\ pc = "switched"
    /\ handled
    /\ response.kind = "rewrite"
    /\ page.localeLayout
    /\ switcher.variant = "dropdown"
    /\ registry = LoadedRegistry

\* The locale layout rendered the page of the request in flight.
LocaleLayoutRendered == pc = "page" /\ response.kind \in {"rewrite", "next"}

\* C22: for every request rendered by the locale layout, the locale of the
\* loaded messages, the lang attribute, the locale of the dir attribute, the
\* inLanguage of every JSON-LD object and the locale of canonical and
\* openGraph.locale are one and the same registered code.
C22_SingleResolvedValue ==
    LocaleLayoutRendered =>
        LET l == page.messages
        IN  /\ l \in RegisteredCodes
            /\ page.lang = l
            /\ \A rec \in RecordsOf(l) : page.dir = rec.direction
            /\ \A i \in 1..Len(RenderedJsonLd) : RenderedJsonLd[i].inLanguage = l
            /\ metadata.alternates.canonical = Slash \o l
            /\ metadata.openGraph.locale = l

\* The outcome of processing a request alone: the single-request pipeline
\* Receive, Skip or Proxy, RequestConfig, generateMetadata, LocaleRootLayout.
RouteAlone(req) ==
    IF Matcher(req.path) THEN proxy(req)
    ELSE [kind |-> "next", url |-> req.path, locale |-> Undefined]

LocaleAlone(req) ==
    IF RouteAlone(req).kind = "rewrite" THEN RouteAlone(req).locale
    ELSE FirstSegment(req.path)

C24_RedirectsTerminate ==
    /\ hops <= 1
    /\ hops = 1 /\ pc \in {"done", "rendered", "meta", "root", "page", "switched"} =>
          /\ handled
          /\ response.kind = "rewrite"
          /\ response.locale \in RegisteredCodes

\* /xx/about was redirected once and its target was passed through.
C24_Witness ==
    /\ pc = "done"
    /\ hops = 1
    /\ request.path = <<"/","e","n","/","x","x","/","a","b","o","u","t">>
    /\ response.kind = "rewrite"

\* The LocaleSwitcher has rendered.
Switched == pc = "switched"

\* The locales of the links of the rendered switcher, in their order.
LinkLocales == [i \in 1..Len(switcher.links) |-> switcher.links[i].locale]

BeginsWithExcludedWord(pathname) ==
    \E w \in matcherExcludedPrefixes : StartsWith(Tail(pathname), w)

ConfigLoaded == pc \in {"rendered", "meta", "root", "page"}

C29_StaticParams ==
    pc = "built" =>
        /\ { staticParams[i].locale : i \in 1..Len(staticParams) } = RegisteredCodes
        /\ \A c \in RegisteredCodes : \E i \in 1..Len(staticParams) : staticParams[i].locale = c
        /\ \A i \in 1..Len(staticParams) : isValidLocale(staticParams[i].locale)

C29_Witness ==
    /\ pc = "built"
    /\ Len(staticParams) = 3
    /\ staticParams[1].locale = <<"a","r">>

\* The path of a URL the application emits: the URL without the origin of
\* the site, "/" when nothing follows the origin.
UrlPath(url) ==
    IF StartsWith(url, siteConfig.url)
    THEN IF SliceFrom(url, Len(siteConfig.url)) = <<>> THEN Slash
         ELSE SliceFrom(url, Len(siteConfig.url))
    ELSE url

\* The first path segment of the URL is a registered code and the router
\* does not redirect the path.
LocalePrefixedUrl(url) ==
    /\ FirstSegment(UrlPath(url)) \in RegisteredCodes
    /\ \A c \in Cookies, a \in AcceptLanguages :
          proxy([path |-> UrlPath(url), cookie |-> c, acceptLanguage |-> a]).kind # "redirect"

\* C30: every page URL the application emits (canonical, every value of
\* alternates.languages, openGraph.url for a registered active locale, and
\* every sitemap entry) has a registered code as first path segment and is
\* not redirected by the router.
C30_EveryUrlPrefixed ==
    /\ pc \in {"meta", "root", "page", "switched"} /\ ActiveLocale \in RegisteredCodes =>
          /\ LocalePrefixedUrl(metadata.alternates.canonical)
          /\ \A c \in DOMAIN metadata.alternates.languages :
                LocalePrefixedUrl(metadata.alternates.languages[c])
          /\ LocalePrefixedUrl(metadata.openGraph.url)
    /\ pc = "sitemapped" =>
          \A i \in 1..Len(sitemapRoutes) : LocalePrefixedUrl(sitemapRoutes[i].url)

====
